---- MODULE Spec2Model ----
(***************************************************************************)
(* State machine of the instrument form: the useInstrumentForm hook (form  *)
(* fields, the parallel image arrays, the initialLoad flag and its three   *)
(* effects), the ImageUploader widget (file selection, sequential uploads, *)
(* busy flag) and the environment they talk to (the parent component that  *)
(* owns isOpen / instrumentToEdit, the instrument service, the upload      *)
(* backend).                                                               *)
(*                                                                         *)
(* One step of the model is one event of the UI event loop (a user event,  *)
(* a parent re-render with new props, a network completion) together with  *)
(* the re-renders and effect passes it triggers, run until no effect       *)
(* changes the state any more.                                             *)
(***************************************************************************)
EXTENDS Integers, Sequences, FiniteSets, TLC

(***************************************************************************)
(* Bounds                                                                  *)
(***************************************************************************)
MaxBatch == 6      \* longest file list of one selection (SpecSelect)
MaxFiles == 5      \* cap on the length of imageFiles (SpecSelect)
MaxKept == 3       \* cap on the length of imageFiles (Spec, SpecImages)
MaxPending == 1    \* cap on create/update requests in flight at once
MaxOrdered == 3    \* longest file list of one selection (SpecBatch)
MaxRevokes == 2    \* the count of URL.revokeObjectURL calls per URL stops here

(***************************************************************************)
(* JavaScript values held by form fields.  Every value carries all four    *)
(* components so that values of different JavaScript types compare.        *)
(***************************************************************************)
Str(x) == [k |-> "string", s |-> x, n |-> 0, b |-> FALSE]
Num(x) == [k |-> "number", s |-> "", n |-> x, b |-> FALSE]
Bool(x) == [k |-> "boolean", s |-> "", n |-> 0, b |-> x]
NaN == [k |-> "NaN", s |-> "", n |-> 0, b |-> FALSE]
Undef == [k |-> "undefined", s |-> "", n |-> 0, b |-> FALSE]

\* JavaScript truthiness, as used by `!x` and `x || y`
Truthy(v) ==
  CASE v.k = "string" -> v.s # ""
    [] v.k = "number" -> v.n # 0
    [] v.k = "boolean" -> v.b
    [] OTHER -> FALSE

\* a || b
Or(a, b) == IF Truthy(a) THEN a ELSE b

\* Number(value) on the strings an input can carry
Number(x) ==
  CASE x = "" -> Num(0)
    [] x = "1" -> Num(1)
    [] x = "2" -> Num(2)
    [] OTHER -> NaN

\* obj[f], undefined when the property is absent
Get(obj, f) == IF f \in DOMAIN obj THEN obj[f] ELSE Undef

\* {...obj, [f]: v}
Put(obj, f, v) == [x \in (DOMAIN obj) \cup {f} |-> IF x = f THEN v ELSE obj[x]]

\* arr.filter((_, i) => i !== index), index counted from 0
RemoveAt(arr, index) ==
  LET keep == {i \in 1..Len(arr) : i - 1 # index}
      lo == {i \in keep : i - 1 < index}
  IN [j \in 1..Cardinality(keep) |-> IF j <= Cardinality(lo) THEN arr[j] ELSE arr[j + 1]]

\* arr.filter(url => url !== imageUrl)
RECURSIVE RemoveUrl(_, _)
RemoveUrl(arr, imageUrl) ==
  IF arr = <<>> THEN <<>>
  ELSE IF Head(arr) = imageUrl THEN RemoveUrl(Tail(arr), imageUrl)
  ELSE <<Head(arr)>> \o RemoveUrl(Tail(arr), imageUrl)

(***************************************************************************)
(* Environment data                                                        *)
(***************************************************************************)
\* The instruments the parent can hand over as instrumentToEdit.  The prop
\* is modelled by the index of the record (0 is null), so that two props are
\* the same object exactly when they are the same index.
Catalog == <<
  [id |-> Num(7), name |-> Str("x"), idCategory |-> Num(2),
   imageUrls |-> <<"http://a/1.png">>],
  [idProduct |-> Num(8), idCategory |-> Num(1), imageUrls |-> <<>>] >>

NoTarget == 0
Targets == 0..Len(Catalog)
ImageTargets == {NoTarget, 1}

\* secureUrl values the upload backend may answer with
UploadUrls == {"http://a/1.png", "http://b/2.png"}

\* Local object URLs.  The widget never makes one (previews come from
\* instrumentToEdit.imageUrls and from response.secureUrl); a preview is one
\* only when the value handed to setImagePreviews starts with "blob:".
BlobUrls == {"blob:h1"}

\* url.startsWith("blob:")
IsBlobUrl(url) == url \in BlobUrls

\* every URL a preview can be
PreviewUrls == UploadUrls \cup BlobUrls

\* files the user can pick
PngFile == [name |-> "a.png", type |-> "image/png"]
TxtFile == [name |-> "n.txt", type |-> "text/plain"]
Files == {PngFile, TxtFile}
JpgFile == [name |-> "b.jpg", type |-> "image/jpeg"]
ImageFiles == {PngFile, JpgFile}

\* file.type.startsWith('image/')
IsImageType(type) == type \in {"image/png", "image/jpeg"}

\* response.data of the upload endpoint
UploadResponse(url) ==
  [secureUrl |-> url, publicId |-> "pid", width |-> 1, height |-> 1, format |-> "png"]

\* the events a form input can raise: field name, raw value, input kind
InputNames == {"name", "available", "idCategory"}
InputValues == {"", "true", "2"}

RECURSIVE SeqsUpTo(_, _)
SeqsUpTo(S, n) ==
  IF n = 0 THEN {<<>>}
  ELSE LET shorter == SeqsUpTo(S, n - 1)
       IN shorter \cup {Append(q, x) : q \in shorter, x \in S}

(***************************************************************************)
(* State                                                                   *)
(***************************************************************************)
VARIABLES
  isOpen,            \* prop
  instrumentToEdit,  \* prop: index into Catalog, 0 for null
  formData,
  imageFiles,
  imagePreviews,
  existingImages,
  imageData,
  initialLoad,
  isUploading,       \* ImageUploader's busy flag
  uploadQueue,       \* files of the running batch not yet uploaded; the head is in flight
  batch,             \* the running batch: its files, the secureUrl answered for each so
                     \* far, and whether the form was closed since the selection
  pending,           \* create / update requests awaiting their response
  revoked,           \* per URL, the number of URL.revokeObjectURL(url) calls so far
  out                \* what the last step did: its operation and its outputs

vars == <<isOpen, instrumentToEdit, formData, imageFiles, imagePreviews,
          existingImages, imageData, initialLoad, isUploading, uploadQueue,
          batch, pending, revoked, out>>

DefaultForm ==
  [name |-> Str(""), brand |-> Str(""), model |-> Str(""), year |-> Str(""),
   stock |-> Str(""), description |-> Str(""), price |-> Str(""),
   available |-> Bool(FALSE), idCategory |-> Str(""), imageUrls |-> <<>>]

\* the object the hydration effect passes to setFormData
FormFromRecord(rec) ==
  [id |-> Or(Get(rec, "id"), Get(rec, "idProduct")),
   name |-> Or(Get(rec, "name"), Str("")),
   brand |-> Or(Get(rec, "brand"), Str("")),
   model |-> Or(Get(rec, "model"), Str("")),
   year |-> Or(Get(rec, "year"), Str("")),
   stock |-> Or(Get(rec, "stock"), Str("")),
   description |-> Or(Get(rec, "description"), Str("")),
   price |-> Or(Get(rec, "price"), Str("")),
   available |-> Or(Get(rec, "available"), Bool(FALSE)),
   idCategory |-> Or(Get(rec, "idCategory"), Str("")),
   imageUrls |-> <<>>]

\* instrumentToEdit.imageUrls.map(url => ({ url }))
UrlsToData(urls) == [i \in 1..Len(urls) |-> [url |-> urls[i]]]

\* imageData.map(img => img.url)
DataToUrls(data) == [i \in 1..Len(data) |-> data[i].url]

(***************************************************************************)
(* A render snapshot: the props and hook state one render closes over.     *)
(* inits counts the initializations (hydration or create-mode reset) run   *)
(* since the snapshot was taken at the start of the step.                  *)
(***************************************************************************)
Snapshot ==
  [isOpen |-> isOpen, target |-> instrumentToEdit, formData |-> formData,
   imageFiles |-> imageFiles, imagePreviews |-> imagePreviews,
   existingImages |-> existingImages, imageData |-> imageData,
   initialLoad |-> initialLoad, inits |-> 0, revoked |-> revoked]

isEditMode(r) == r.target # NoTarget

\* urls.forEach(url => { if (url.startsWith("blob:")) URL.revokeObjectURL(url) }),
\* applied to the call counts
RECURSIVE RevokeAll(_, _)
RevokeAll(count, urls) ==
  IF urls = <<>> THEN count
  ELSE RevokeAll(
         IF IsBlobUrl(Head(urls)) /\ count[Head(urls)] < MaxRevokes
         THEN [count EXCEPT ![Head(urls)] = @ + 1] ELSE count,
         Tail(urls))

\* ResetForm without setExistingImages([])
ResetFormKeepsExisting(q) ==
  [q EXCEPT !.formData = DefaultForm, !.imageFiles = <<>>, !.imagePreviews = <<>>,
            !.imageData = <<>>, !.revoked = RevokeAll(@, q.imagePreviews)]

\* resetForm: the handles it releases and the state updates it queues,
\* applied to q.  The imagePreviews it closes over are those of q: it is
\* called by a handler on the rendered state, or by the cleanup effect in
\* create mode, where no earlier effect of the pass has touched them.
ResetForm(q) ==
  [q EXCEPT !.formData = DefaultForm, !.imageFiles = <<>>, !.imagePreviews = <<>>,
            !.existingImages = <<>>, !.imageData = <<>>,
            !.revoked = RevokeAll(@, q.imagePreviews)]

\* effect "load instrument data when in edit mode", closed over render r
HydrateEffect(r, q) ==
  IF isEditMode(r) /\ r.initialLoad
  THEN LET rec == Catalog[r.target]
           q1 == [q EXCEPT !.formData = FormFromRecord(rec)]
           q2 == IF "imageUrls" \in DOMAIN rec /\ Len(rec.imageUrls) > 0
                 THEN [q1 EXCEPT !.existingImages = rec.imageUrls,
                                 !.imagePreviews = rec.imageUrls,
                                 !.imageData = UrlsToData(rec.imageUrls)]
                 ELSE q1
       IN [q2 EXCEPT !.initialLoad = FALSE, !.inits = @ + 1]
  ELSE q

\* effect "reset initialLoad when isOpen changes"
RearmEffect(r, q) ==
  IF r.isOpen THEN [q EXCEPT !.initialLoad = TRUE] ELSE q

\* effect "cleanup on modal close"
CleanupEffect(r, q) ==
  IF ~r.isOpen THEN [q EXCEPT !.revoked = RevokeAll(@, r.imagePreviews)]
  ELSE IF ~isEditMode(r) /\ r.initialLoad
  THEN [ResetForm(q) EXCEPT !.initialLoad = FALSE, !.inits = @ + 1]
  ELSE q

\* dependency arrays of the three effects: did a dependency change from render p to render r
HydrateDeps(p, r) ==
  isEditMode(p) # isEditMode(r) \/ p.target # r.target \/ p.initialLoad # r.initialLoad
RearmDeps(p, r) == p.isOpen # r.isOpen
CleanupDeps(p, r) ==
  \/ p.isOpen # r.isOpen
  \/ isEditMode(p) # isEditMode(r)
  \/ p.imagePreviews # r.imagePreviews
  \/ p.initialLoad # r.initialLoad

\* the effect pass after render r (previous render p): effects run in
\* declaration order, all closed over r, their updates queued in order
RunEffects(p, r, mount) ==
  LET q1 == IF mount \/ HydrateDeps(p, r) THEN HydrateEffect(r, r) ELSE r
      q2 == IF mount \/ RearmDeps(p, r) THEN RearmEffect(r, q1) ELSE q1
      q3 == IF mount \/ CleanupDeps(p, r) THEN CleanupEffect(r, q2) ELSE q2
  IN q3

\* the same React state: nothing to re-render (inits and revoked are not state)
SameState(a, b) ==
  [a EXCEPT !.inits = 0, !.revoked = b.revoked] = [b EXCEPT !.inits = 0]

\* render r, run its effects, and re-render while they changed the state
RECURSIVE Settle(_, _, _)
Settle(p, r, mount) ==
  LET q == CHOOSE x \in {RunEffects(p, r, mount)} : TRUE
  IN IF SameState(q, r) THEN q ELSE Settle(r, q, FALSE)

\* the settled state after an event moved the state from the rendered one to r
AfterEvent(r) == IF SameState(r, Snapshot) THEN r ELSE Settle(Snapshot, r, FALSE)

Commit(s) ==
  /\ isOpen' = s.isOpen
  /\ instrumentToEdit' = s.target
  /\ formData' = s.formData
  /\ imageFiles' = s.imageFiles
  /\ imagePreviews' = s.imagePreviews
  /\ existingImages' = s.existingImages
  /\ imageData' = s.imageData
  /\ initialLoad' = s.initialLoad
  /\ revoked' = s.revoked

\* no batch is running
NoBatch == [files |-> <<>>, urls |-> <<>>, closed |-> FALSE]

\* a running batch goes on when the form is hidden; remember that it was
MarkClosed(b, open) == IF b # NoBatch /\ ~open THEN [b EXCEPT !.closed = TRUE] ELSE b

\* outputs of a step: the operation, its argument (field name, index or file
\* list), and what it did to the outside; for a step of a batch, files and
\* urls are the files of the batch and the answers it got up to this step
NoOut(op) ==
  [op |-> op, name |-> "", value |-> "", type |-> "", checked |-> FALSE,
   index |-> 0, files |-> <<>>, urls |-> <<>>,
   inits |-> 0, onClose |-> FALSE, notified |-> "none", toast |-> "",
   issued |-> <<>>, uploads |-> 0]

(***************************************************************************)
(* Initial state: the hook mounts with the props the parent passes         *)
(***************************************************************************)
MountState(o, t) ==
  [isOpen |-> o, target |-> t, formData |-> DefaultForm, imageFiles |-> <<>>,
   imagePreviews |-> <<>>, existingImages |-> <<>>, imageData |-> <<>>,
   initialLoad |-> TRUE, inits |-> 0, revoked |-> [u \in PreviewUrls |-> 0]]

InitWith(targets) ==
  \E o \in BOOLEAN, t \in targets :
    LET s == CHOOSE x \in {Settle(MountState(o, t), MountState(o, t), TRUE)} : TRUE
    IN /\ isOpen = s.isOpen
       /\ instrumentToEdit = s.target
       /\ formData = s.formData
       /\ imageFiles = s.imageFiles
       /\ imagePreviews = s.imagePreviews
       /\ existingImages = s.existingImages
       /\ imageData = s.imageData
       /\ initialLoad = s.initialLoad
       /\ revoked = s.revoked
       /\ isUploading = FALSE
       /\ uploadQueue = <<>>
       /\ batch = NoBatch
       /\ pending = [create |-> 0, update |-> 0]
       /\ out = [NoOut("mount") EXCEPT !.inits = s.inits]

Init == InitWith(Targets)

(***************************************************************************)
(* The parent re-renders the form with new props                           *)
(***************************************************************************)
SetProps(o, t) ==
  /\ <<o, t>> # <<isOpen, instrumentToEdit>>
  /\ \E s \in {AfterEvent([Snapshot EXCEPT !.isOpen = o, !.target = t])} :
        /\ Commit(s)
        /\ out' = [NoOut("props") EXCEPT !.inits = s.inits]
  /\ batch' = MarkClosed(batch, isOpen')
  /\ UNCHANGED <<isUploading, uploadQueue, pending>>

(***************************************************************************)
(* handleInputChange                                                       *)
(***************************************************************************)
\* CoerceInput that keeps the raw value of the category field
CoerceInputKeepsCategory(name, value, type, checked) ==
  IF type = "checkbox" THEN Bool(checked)
  ELSE IF name = "available" THEN Bool(value = "true")
  ELSE Str(value)

\* the value handleInputChange stores for the event target {name, value, type, checked}
CoerceInput(name, value, type, checked) ==
  IF type = "checkbox" THEN Bool(checked)
  ELSE IF name = "idCategory" THEN Number(value)
  ELSE IF name = "available" THEN Bool(value = "true")
  ELSE Str(value)

\* InputRejected without the edit-mode guard
InputRejectedNever(r, name) == FALSE

\* the guard "in edit mode, only allow category changes"
InputRejected(r, name) == isEditMode(r) /\ name # "idCategory"

handleInputChange(name, value, type, checked) ==
  /\ \E s \in {AfterEvent(
                 IF InputRejected(Snapshot, name) THEN Snapshot
                 ELSE [Snapshot EXCEPT !.formData =
                         Put(@, name, CoerceInput(name, value, type, checked))])} :
        /\ Commit(s)
        /\ out' = [NoOut("input") EXCEPT !.inits = s.inits, !.name = name,
                     !.value = value, !.type = type, !.checked = checked]
  /\ UNCHANGED <<isUploading, uploadQueue, batch, pending>>

(***************************************************************************)
(* removeImage                                                             *)
(***************************************************************************)
\* RemoveImageUpdates without the early return in edit mode
RemoveImageUpdatesUnguarded(r, index) ==
  LET isExistingImage == index < Len(r.existingImages)
      r1 == IF isExistingImage
            THEN [r EXCEPT !.existingImages = RemoveAt(@, index),
                           !.imagePreviews = RemoveUrl(@, r.existingImages[index + 1])]
            ELSE [r EXCEPT !.imageFiles = RemoveAt(@, index - Len(r.existingImages)),
                           !.imagePreviews = RemoveAt(@, index),
                           !.revoked =
                             IF index < Len(r.imagePreviews)
                             THEN RevokeAll(@, <<r.imagePreviews[index + 1]>>)
                             ELSE @]
  IN [r1 EXCEPT !.imageData = RemoveAt(@, index)]

\* the state updates removeImage(index) queues (index counted from 0), for
\* the render r it was created in
RemoveImageUpdates(r, index) ==
  IF isEditMode(r) THEN r
  ELSE LET isExistingImage == index < Len(r.existingImages)
           r1 == IF isExistingImage
                 THEN [r EXCEPT !.existingImages = RemoveAt(@, index),
                                !.imagePreviews = RemoveUrl(@, r.existingImages[index + 1])]
                 ELSE [r EXCEPT !.imageFiles = RemoveAt(@, index - Len(r.existingImages)),
                                !.imagePreviews = RemoveAt(@, index),
                                !.revoked =
                                  IF index < Len(r.imagePreviews)
                                  THEN RevokeAll(@, <<r.imagePreviews[index + 1]>>)
                                  ELSE @]
       IN [r1 EXCEPT !.imageData = RemoveAt(@, index)]

removeImage(index) ==
  /\ \E s \in {AfterEvent(RemoveImageUpdates(Snapshot, index))} :
        /\ Commit(s)
        /\ out' = [NoOut("remove") EXCEPT !.inits = s.inits, !.index = index]
  /\ UNCHANGED <<isUploading, uploadQueue, batch, pending>>

(***************************************************************************)
(* resetForm and handleClose                                               *)
(***************************************************************************)
resetForm ==
  /\ \E s \in {AfterEvent(ResetForm(Snapshot))} :
        /\ Commit(s)
        /\ out' = [NoOut("reset") EXCEPT !.inits = s.inits]
  /\ UNCHANGED <<isUploading, uploadQueue, batch, pending>>

\* onClose(): the parent hides the form; it may or may not drop the record it passed
OnClose(q, keep) ==
  [q EXCEPT !.isOpen = FALSE, !.target = IF keep THEN @ ELSE NoTarget]

\* handleClose: resetForm(), then onClose()
HandleCloseUpdates(r, keep) == OnClose(ResetForm(r), keep)

handleClose(keep) ==
  /\ \E s \in {AfterEvent(HandleCloseUpdates(Snapshot, keep))} :
        /\ Commit(s)
        /\ out' = [NoOut("close") EXCEPT !.inits = s.inits, !.onClose = TRUE]
  /\ batch' = MarkClosed(batch, isOpen')
  /\ UNCHANGED <<isUploading, uploadQueue, pending>>

(***************************************************************************)
(* handleSubmit: the part up to the request, then the two ways it resumes  *)
(***************************************************************************)
\* the object sent to updateInstrument in edit mode
CategoryUpdateData(fd) == [id |-> Get(fd, "id"), idCategory |-> fd.idCategory]

\* the object sent to createInstrument in create mode
CreateData(fd, data) == Put(fd, "imageUrls", DataToUrls(data))

\* SubmitError without the check for files that have no metadata yet
SubmitErrorSkipsUploadCheck(r) ==
  IF ~Truthy(r.formData.idCategory) THEN "Debes seleccionar una categoria."
  ELSE IF isEditMode(r) THEN ""
  ELSE IF Len(r.imageData) = 0 /\ Len(r.imageFiles) = 0
  THEN "Debes agregar al menos una imagen."
  ELSE ""

\* the validation of handleSubmit: the message it reports (written without
\* accents), "" when it passes
SubmitError(r) ==
  IF ~Truthy(r.formData.idCategory) THEN "Debes seleccionar una categoria."
  ELSE IF isEditMode(r) THEN ""
  ELSE IF Len(r.imageData) = 0 /\ Len(r.imageFiles) = 0
  THEN "Debes agregar al menos una imagen."
  ELSE IF Len(r.imageData) > 0 THEN ""
  ELSE "Las imagenes aun no se han subido correctamente."

\* the request handleSubmit issues once the validation has passed
SubmitRequest(r) ==
  IF isEditMode(r)
  THEN [kind |-> "update", payload |-> CategoryUpdateData(r.formData)]
  ELSE [kind |-> "create", payload |-> CreateData(r.formData, r.imageData)]

handleSubmit ==
  LET r == Snapshot
      err == SubmitError(r)
  IN IF err # ""
     THEN /\ out' = [NoOut("submit") EXCEPT !.toast = err]
          /\ UNCHANGED <<isOpen, instrumentToEdit, formData, imageFiles, imagePreviews,
                         existingImages, imageData, initialLoad, revoked, isUploading,
                         uploadQueue, batch, pending>>
     ELSE /\ pending.create + pending.update < MaxPending
          /\ pending' = [pending EXCEPT ![SubmitRequest(r).kind] = @ + 1]
          /\ out' = [NoOut("submit") EXCEPT !.issued = <<SubmitRequest(r)>>]
          /\ UNCHANGED <<isOpen, instrumentToEdit, formData, imageFiles, imagePreviews,
                         existingImages, imageData, initialLoad, revoked, isUploading,
                         uploadQueue, batch>>

\* the request resolves: notify the context, toast, handleClose()
SubmitSucceeds(kind, keep) ==
  /\ pending[kind] > 0
  /\ pending' = [pending EXCEPT ![kind] = @ - 1]
  /\ \E s \in {AfterEvent(HandleCloseUpdates(Snapshot, keep))} :
        /\ Commit(s)
        /\ out' = [NoOut("submitOk") EXCEPT
                     !.inits = s.inits, !.onClose = TRUE, !.notified = kind,
                     !.toast = IF kind = "update"
                               THEN "Categoria del instrumento actualizada con exito."
                               ELSE "Instrumento agregado con exito."]
  /\ batch' = MarkClosed(batch, isOpen')
  /\ UNCHANGED <<isUploading, uploadQueue>>

\* the message of the catch block for error.response?.status
ErrorToast(status) ==
  CASE status = 409 -> "El instrumento ya existe. Intenta con otro nombre."
    [] status = 400 -> "Datos invalidos. Revisa el formulario."
    [] status = 500 -> "Error en el servidor. Intentalo mas tarde."
    [] OTHER -> "error.message"

\* SubmitFails with a catch block that also closes the form
SubmitFailsThenCloses(kind, status) ==
  /\ pending[kind] > 0
  /\ pending' = [pending EXCEPT ![kind] = @ - 1]
  /\ \E s \in {AfterEvent(HandleCloseUpdates(Snapshot, TRUE))} :
        /\ Commit(s)
        /\ out' = [NoOut("submitErr") EXCEPT
                     !.inits = s.inits, !.onClose = TRUE, !.toast = ErrorToast(status)]
  /\ batch' = MarkClosed(batch, isOpen')
  /\ UNCHANGED <<isUploading, uploadQueue>>

\* the request rejects: the catch block only reports
SubmitFails(kind, status) ==
  /\ pending[kind] > 0
  /\ pending' = [pending EXCEPT ![kind] = @ - 1]
  /\ out' = [NoOut("submitErr") EXCEPT !.toast = ErrorToast(status)]
  /\ UNCHANGED <<isOpen, instrumentToEdit, formData, imageFiles, imagePreviews,
                 existingImages, imageData, initialLoad, revoked, isUploading, uploadQueue,
                 batch>>

(***************************************************************************)
(* ImageUploader.handleImageUpload                                         *)
(***************************************************************************)
MaxImages == 5

\* files.filter(file => file.type.startsWith('image/'))
RECURSIVE ValidFiles(_)
ValidFiles(files) ==
  IF files = <<>> THEN <<>>
  ELSE IF IsImageType(Head(files).type) THEN <<Head(files)>> \o ValidFiles(Tail(files))
  ELSE ValidFiles(Tail(files))

\* UploadRejection without the check of the file types
UploadRejectionNoTypeCheck(r, files) ==
  IF isEditMode(r) THEN "edit"
  ELSE IF Len(files) + Len(r.imagePreviews) > MaxImages THEN "Maximo 5 imagenes permitidas"
  ELSE ""

\* the checks before the batch starts: the alert raised, "" when the batch is
\* accepted, "edit" for the silent return in edit mode
UploadRejection(r, files) ==
  IF isEditMode(r) THEN "edit"
  ELSE IF Len(files) + Len(r.imagePreviews) > MaxImages THEN "Maximo 5 imagenes permitidas"
  ELSE IF Len(ValidFiles(files)) # Len(files) THEN "Solo se permiten archivos de imagen"
  ELSE ""

\* the descriptor appended to imageData for an upload response
Descriptor(response) ==
  [url |-> response.secureUrl, publicId |-> response.publicId, width |-> response.width,
   height |-> response.height, format |-> response.format]

\* a change event of the file input (the input is disabled while isUploading);
\* cap bounds imageFiles, which failed uploads would otherwise grow for ever
handleImageUpload(files, cap) ==
  /\ ~isUploading
  /\ LET r == Snapshot
         rej == UploadRejection(r, files)
     IN IF rej # ""
        THEN /\ out' = [NoOut("select") EXCEPT !.toast = rej, !.files = files]
             /\ UNCHANGED <<isOpen, instrumentToEdit, formData, imageFiles, imagePreviews,
                            existingImages, imageData, initialLoad, revoked, isUploading,
                            uploadQueue, batch, pending>>
        ELSE /\ Len(imageFiles) + Len(files) <= cap
             /\ \E s \in {AfterEvent([r EXCEPT !.imageFiles = @ \o ValidFiles(files)])} :
                   /\ Commit(s)
                   /\ out' = [NoOut("select") EXCEPT
                                !.inits = s.inits, !.files = files,
                                !.uploads = IF ValidFiles(files) = <<>> THEN 0 ELSE 1]
             /\ uploadQueue' = ValidFiles(files)
             /\ batch' = IF ValidFiles(files) = <<>> THEN NoBatch
                         ELSE [files |-> ValidFiles(files), urls |-> <<>>, closed |-> FALSE]
             /\ isUploading' = (ValidFiles(files) # <<>>)
             /\ UNCHANGED pending

\* UploadSucceeds for uploads started together (Promise.all): the answer is
\* that of the last file, the earlier files still in flight
UploadSucceedsLastFirst(url) ==
  /\ uploadQueue # <<>>
  /\ \E s \in {AfterEvent([Snapshot EXCEPT
                  !.imagePreviews = Append(@, UploadResponse(url).secureUrl),
                  !.imageData = Append(@, Descriptor(UploadResponse(url)))])} :
        /\ Commit(s)
        /\ out' = [NoOut("uploadOk") EXCEPT
                     !.inits = s.inits, !.files = batch.files,
                     !.urls = Append(batch.urls, url),
                     !.uploads = 0]
  /\ uploadQueue' = SubSeq(uploadQueue, 1, Len(uploadQueue) - 1)
  /\ batch' = IF Len(uploadQueue) = 1 THEN NoBatch
              ELSE [batch EXCEPT !.urls = Append(@, url)]
  /\ isUploading' = (Len(uploadQueue) > 1)
  /\ UNCHANGED pending

\* the upload in flight resolves with a response: append preview and
\* descriptor, then go on with the next file or end the batch
UploadSucceeds(url) ==
  /\ uploadQueue # <<>>
  /\ \E s \in {AfterEvent([Snapshot EXCEPT
                  !.imagePreviews = Append(@, UploadResponse(url).secureUrl),
                  !.imageData = Append(@, Descriptor(UploadResponse(url)))])} :
        /\ Commit(s)
        /\ out' = [NoOut("uploadOk") EXCEPT
                     !.inits = s.inits, !.files = batch.files,
                     !.urls = Append(batch.urls, url),
                     !.uploads = IF Tail(uploadQueue) = <<>> THEN 0 ELSE 1]
  /\ uploadQueue' = Tail(uploadQueue)
  /\ batch' = IF Tail(uploadQueue) = <<>> THEN NoBatch
              ELSE [batch EXCEPT !.urls = Append(@, url)]
  /\ isUploading' = (Tail(uploadQueue) # <<>>)
  /\ UNCHANGED pending

\* UploadFails with the try/catch inside the loop: alert, then the next file
UploadFailsAndContinues ==
  /\ uploadQueue # <<>>
  /\ uploadQueue' = Tail(uploadQueue)
  /\ batch' = IF Tail(uploadQueue) = <<>> THEN NoBatch ELSE batch
  /\ isUploading' = (Tail(uploadQueue) # <<>>)
  /\ out' = [NoOut("uploadErr") EXCEPT
               !.toast = "Error al subir imagen", !.files = batch.files,
               !.urls = batch.urls,
               !.uploads = IF Tail(uploadQueue) = <<>> THEN 0 ELSE 1]
  /\ UNCHANGED <<isOpen, instrumentToEdit, formData, imageFiles, imagePreviews,
                 existingImages, imageData, initialLoad, revoked, pending>>

\* UploadFails without the finally block
UploadFailsKeepsBusy ==
  /\ uploadQueue # <<>>
  /\ uploadQueue' = <<>>
  /\ batch' = NoBatch
  /\ out' = [NoOut("uploadErr") EXCEPT
               !.toast = "Error al subir imagen", !.files = batch.files,
               !.urls = batch.urls]
  /\ UNCHANGED <<isOpen, instrumentToEdit, formData, imageFiles, imagePreviews,
                 existingImages, imageData, initialLoad, revoked, isUploading, pending>>

\* the upload in flight rejects: alert, the rest of the batch is dropped
UploadFails ==
  /\ uploadQueue # <<>>
  /\ uploadQueue' = <<>>
  /\ batch' = NoBatch
  /\ isUploading' = FALSE
  /\ out' = [NoOut("uploadErr") EXCEPT
               !.toast = "Error al subir imagen", !.files = batch.files,
               !.urls = batch.urls]
  /\ UNCHANGED <<isOpen, instrumentToEdit, formData, imageFiles, imagePreviews,
                 existingImages, imageData, initialLoad, revoked, pending>>

RequestKinds == {"create", "update"}
Statuses == {409, 400, 500, 0}

\* every change event of the modelled inputs
InputEvents ==
  {[name |-> nm, value |-> v, type |-> "text", checked |-> FALSE] :
     nm \in InputNames, v \in InputValues}
  \cup {[name |-> nm, value |-> "on", type |-> "checkbox", checked |-> c] :
     nm \in InputNames, c \in BOOLEAN}

\* the events used where the form is exercised together with submit: select a
\* category, select the placeholder option, type a name
FormEvents ==
  {e \in InputEvents : e.type = "text" /\ e.name \in {"name", "idCategory"}
                       /\ e.value \in {"", "2"}}

(***************************************************************************)
(* Specifications.  User events (field changes, remove, reset, close,     *)
(* submit, file selection) reach the handlers only while the form is       *)
(* shown (isOpen); props changes and network completions come at any time. *)
(***************************************************************************)
\* the image state: props, selections of up to two files, uploads answered
\* with either URL, removal, reset, close
NextImages ==
  \/ \E o \in BOOLEAN, t \in ImageTargets : SetProps(o, t)
  \/ isOpen /\ \E index \in 0..(Len(imagePreviews) - 1) : removeImage(index)
  \/ isOpen /\ resetForm
  \/ isOpen /\ \E keep \in BOOLEAN : handleClose(keep)
  \/ isOpen /\ \E files \in SeqsUpTo(Files, 2) : handleImageUpload(files, MaxKept)
  \/ \E url \in UploadUrls : UploadSucceeds(url)
  \/ UploadFails

\* the image state is exercised in create mode and with the record that has an image
InitImages == InitWith(ImageTargets)

SpecImages == InitImages /\ [][NextImages]_vars

\* the file lists of a selection: up to MaxBatch files, at most one of them
\* not an image (a second one changes nothing in the checks of the handler)
Batches ==
  {b \in SeqsUpTo(Files, MaxBatch) :
     Cardinality({i \in 1..Len(b) : ~IsImageType(b[i].type)}) <= 1}

\* file selection: every batch of Batches, one answer of the upload backend
NextSelect ==
  \/ \E o \in BOOLEAN, t \in ImageTargets : SetProps(o, t)
  \/ isOpen /\ \E index \in 0..(Len(imagePreviews) - 1) : removeImage(index)
  \/ isOpen /\ \E keep \in BOOLEAN : handleClose(keep)
  \/ isOpen /\ \E files \in Batches : handleImageUpload(files, MaxFiles)
  \/ UploadSucceeds("http://b/2.png")
  \/ UploadFails

SpecSelect == InitImages /\ [][NextSelect]_vars

\* the form: props, field changes, submit and its completions, close, with
\* single-file selections to put images in place
Next ==
  \/ \E o \in BOOLEAN, t \in Targets : SetProps(o, t)
  \/ isOpen /\ \E e \in FormEvents : handleInputChange(e.name, e.value, e.type, e.checked)
  \/ isOpen /\ \E keep \in BOOLEAN : handleClose(keep)
  \/ isOpen /\ handleSubmit
  \/ \E kind \in RequestKinds, keep \in BOOLEAN : SubmitSucceeds(kind, keep)
  \/ \E kind \in RequestKinds, status \in Statuses : SubmitFails(kind, status)
  \/ isOpen /\ handleImageUpload(<<PngFile>>, MaxKept)
  \/ UploadSucceeds("http://b/2.png")
  \/ UploadFails

Spec == Init /\ [][Next]_vars

\* the fields alone: props and every input event
NextFields ==
  \/ \E o \in BOOLEAN, t \in Targets : SetProps(o, t)
  \/ isOpen /\ \E e \in InputEvents : handleInputChange(e.name, e.value, e.type, e.checked)
  \/ isOpen /\ \E keep \in BOOLEAN : handleClose(keep)

SpecFields == Init /\ [][NextFields]_vars

\* one batch after the other in create mode: selections of up to MaxOrdered
\* image files of two kinds, uploads answered with either URL or failing,
\* removal, reset, close and reopen
NextBatch ==
  \/ \E o \in BOOLEAN : SetProps(o, NoTarget)
  \/ isOpen /\ \E index \in 0..(Len(imagePreviews) - 1) : removeImage(index)
  \/ isOpen /\ resetForm
  \/ isOpen /\ \E keep \in BOOLEAN : handleClose(keep)
  \/ isOpen /\ \E files \in SeqsUpTo(ImageFiles, MaxOrdered) :
                  handleImageUpload(files, MaxKept)
  \/ \E url \in UploadUrls : UploadSucceeds(url)
  \/ UploadFails

InitBatch == InitWith({NoTarget})

\* reset and close on a form with field values and images: props, field
\* changes, single-file selections, reset, close
NextReset ==
  \/ \E o \in BOOLEAN, t \in Targets : SetProps(o, t)
  \/ isOpen /\ \E e \in FormEvents : handleInputChange(e.name, e.value, e.type, e.checked)
  \/ isOpen /\ resetForm
  \/ isOpen /\ \E keep \in BOOLEAN : handleClose(keep)
  \/ isOpen /\ handleImageUpload(<<PngFile>>, MaxKept)
  \/ UploadSucceeds("http://b/2.png")
  \/ UploadFails

SpecReset == Init /\ [][NextReset]_vars

\* creating an instrument: the form in create mode, field changes, selections
\* of one or two image files, submit and its completions, close and reopen
NextCreate ==
  \/ \E o \in BOOLEAN : SetProps(o, NoTarget)
  \/ isOpen /\ \E e \in FormEvents : handleInputChange(e.name, e.value, e.type, e.checked)
  \/ isOpen /\ \E keep \in BOOLEAN : handleClose(keep)
  \/ isOpen /\ handleSubmit
  \/ \E keep \in BOOLEAN : SubmitSucceeds("create", keep)
  \/ \E status \in Statuses : SubmitFails("create", status)
  \/ isOpen /\ \E files \in SeqsUpTo({PngFile}, 2) : handleImageUpload(files, MaxKept)
  \/ UploadSucceeds("http://b/2.png")
  \/ UploadFails

SpecCreate == InitBatch /\ [][NextCreate]_vars

\* url is a local object URL that has not been a preview yet
FreshHandle(url) ==
  /\ revoked[url] = 0
  /\ \A i \in 1..Len(imagePreviews) : imagePreviews[i] # url

\* preview handles in create mode: single-file selections whose preview is
\* a remote URL or, once, a local object URL; removal, reset, close by
\* handleClose or by the parent, reopen
NextHandles ==
  \/ \E o \in BOOLEAN : SetProps(o, NoTarget)
  \/ isOpen /\ \E index \in 0..(Len(imagePreviews) - 1) : removeImage(index)
  \/ isOpen /\ resetForm
  \/ isOpen /\ \E keep \in BOOLEAN : handleClose(keep)
  \/ isOpen /\ handleImageUpload(<<PngFile>>, MaxKept)
  \/ \E url \in BlobUrls \cup {"http://b/2.png"} :
        (IsBlobUrl(url) => FreshHandle(url)) /\ UploadSucceeds(url)
  \/ UploadFails

SpecHandles == InitBatch /\ [][NextHandles]_vars

SpecBatch == InitBatch /\ [][NextBatch]_vars

\* an upload backend that answers every file with the URL of that file
SecureUrlOf(file) == IF file = PngFile THEN "http://a/1.png" ELSE "http://b/2.png"

\* NextBatch with that backend, so that a preview tells the file it came from
NextFiles ==
  \/ \E o \in BOOLEAN : SetProps(o, NoTarget)
  \/ isOpen /\ \E index \in 0..(Len(imagePreviews) - 1) : removeImage(index)
  \/ isOpen /\ resetForm
  \/ isOpen /\ \E keep \in BOOLEAN : handleClose(keep)
  \/ isOpen /\ \E files \in SeqsUpTo(ImageFiles, MaxOrdered) :
                  handleImageUpload(files, MaxKept)
  \/ uploadQueue # <<>> /\ UploadSucceeds(SecureUrlOf(Head(uploadQueue)))
  \/ UploadFails

SpecFiles == InitBatch /\ [][NextFiles]_vars

\* the upload in flight is answered, one way or the other
UploadResponds == (\E url \in UploadUrls : UploadSucceeds(url)) \/ UploadFails

\* the busy flag: selections of up to MaxOrdered image files, close and
\* reopen, and an upload backend that answers every upload it is sent
NextBusy ==
  \/ \E o \in BOOLEAN : SetProps(o, NoTarget)
  \/ isOpen /\ \E index \in 0..(Len(imagePreviews) - 1) : removeImage(index)
  \/ isOpen /\ \E keep \in BOOLEAN : handleClose(keep)
  \/ isOpen /\ \E files \in SeqsUpTo({PngFile}, MaxOrdered) :
                  handleImageUpload(files, MaxKept)
  \/ UploadResponds

SpecBusy == InitBatch /\ [][NextBusy]_vars /\ WF_vars(UploadResponds)

(***************************************************************************)
(* Vocabulary of the properties                                            *)
(***************************************************************************)
EditMode == instrumentToEdit # NoTarget

\* the id of a catalog record
RecordId(rec) == Or(Get(rec, "id"), Get(rec, "idProduct"))

\* the hook state shows record t and nothing else
HydratedFor(t) ==
  /\ Get(formData, "id") = RecordId(Catalog[t])
  /\ formData = FormFromRecord(Catalog[t])
  /\ imagePreviews = Catalog[t].imageUrls
  /\ imageData = UrlsToData(Catalog[t].imageUrls)

\* the step leaves the form open in edit mode for a record it was not open for before
BecomesOpenForRecord ==
  /\ isOpen' /\ instrumentToEdit' # NoTarget
  /\ ~isOpen \/ instrumentToEdit # instrumentToEdit'

ImagesUnchanged ==
  UNCHANGED <<imageFiles, imagePreviews, existingImages, imageData>>

(***************************************************************************)
(* C1: in every reachable state imagePreviews and imageData have the same  *)
(* length, imagePreviews[i] is imageData[i].url for every i, and the       *)
(* entries below existingImages.length are the pre-existing images.        *)
(***************************************************************************)
C1_ParallelArrays ==
  /\ Len(imagePreviews) = Len(imageData)
  /\ \A i \in 1..Len(imagePreviews) : imagePreviews[i] = imageData[i].url
  /\ Len(existingImages) <= Len(imagePreviews)
  /\ \A i \in 1..Len(existingImages) : imagePreviews[i] = existingImages[i]

(***************************************************************************)
(* C2: whenever the form becomes open in edit mode for a record R (at      *)
(* mount or by a later step, from any prior state), the settled state has  *)
(* formData hydrated from R (formData.id = R's id), imagePreviews =        *)
(* R.imageUrls and imageData = R.imageUrls mapped to {url}.                *)
(***************************************************************************)
C2_OpenHydrates ==
  /\ (isOpen /\ EditMode) => HydratedFor(instrumentToEdit)
  /\ [][BecomesOpenForRecord => HydratedFor(instrumentToEdit)']_vars

(***************************************************************************)
(* C3: initialization (hydration or create-mode reset) runs exactly once   *)
(* per open transition and never again while the form stays open.          *)
(***************************************************************************)
C3_InitOncePerOpen ==
  /\ isOpen => out.inits = 1
  /\ [][/\ (~isOpen /\ isOpen') => out'.inits = 1
        /\ (isOpen /\ isOpen') => out'.inits = 0]_vars

(***************************************************************************)
(* C4: a submit in edit mode with a category selected issues exactly one   *)
(* update request, with payload exactly {id, idCategory}: id the id of the *)
(* record being edited, idCategory the selected category.                  *)
(***************************************************************************)
C4_EditSubmitPayload ==
  [][(out'.op = "submit" /\ EditMode /\ Truthy(formData.idCategory)) =>
       /\ out'.issued =
            <<[kind |-> "update",
               payload |-> [id |-> RecordId(Catalog[instrumentToEdit]),
                            idCategory |-> formData.idCategory]]>>
       /\ pending' = [pending EXCEPT !.update = @ + 1]]_vars

(***************************************************************************)
(* C5: a submit that fails validation (no category selected, or in create  *)
(* mode no image metadata, with or without raw files) issues no request,   *)
(* does not close the form, does not notify the subscriber and leaves      *)
(* formData and the image arrays unchanged.                                *)
(***************************************************************************)
ValidationFails ==
  \/ ~Truthy(formData.idCategory)
  \/ ~EditMode /\ Len(imageData) = 0

C6_ClosesIffSucceeds ==
  [][/\ out'.op = "submitOk" =>
          /\ out'.notified # "none" /\ out'.onClose /\ ~isOpen'
          /\ formData' = DefaultForm
          /\ imageFiles' = <<>> /\ imagePreviews' = <<>>
          /\ existingImages' = <<>> /\ imageData' = <<>>
     /\ out'.op \in {"submit", "submitErr"} =>
          /\ out'.notified = "none" /\ ~out'.onClose /\ isOpen' = isOpen
          /\ formData' = formData
          /\ ImagesUnchanged]_vars

C6_Witness ==
  /\ out.op = "submitErr"
  /\ out.toast = ErrorToast(409)
  /\ isOpen /\ ~EditMode /\ Len(imageData) > 0

(***************************************************************************)
(* C7: in edit mode a field change whose field name is not idCategory      *)
(* leaves formData unchanged.                                              *)
(***************************************************************************)
C7_EditOnlyCategory ==
  [][(out'.op = "input" /\ EditMode /\ out'.name # "idCategory") =>
       formData' = formData]_vars

C7_Witness ==
  /\ out.op = "input" /\ out.name = "available"
  /\ isOpen /\ EditMode
  /\ formData = FormFromRecord(Catalog[instrumentToEdit])

(***************************************************************************)
(* C8: in edit mode removeImage(index) and a file selection leave          *)
(* imagePreviews, imageData, existingImages and imageFiles unchanged and   *)
(* issue no upload.                                                        *)
(***************************************************************************)
C8_EditImagesReadOnly ==
  [][(out'.op \in {"remove", "select"} /\ EditMode) =>
       /\ ImagesUnchanged
       /\ out'.uploads = 0
       /\ UNCHANGED <<isUploading, uploadQueue, batch>>]_vars

C8_Witness ==
  /\ out.op = "remove"
  /\ isOpen /\ EditMode
  /\ Len(imagePreviews) > 0

(***************************************************************************)
(* C9: removeImage(i), i in range of imagePreviews, removes exactly the    *)
(* entry at index i from imagePreviews and from imageData, keeping the     *)
(* other entries in order.                                                 *)
(***************************************************************************)
C9_RemoveExactlyOne ==
  [][(out'.op = "remove" /\ ~EditMode /\ out'.index < Len(imagePreviews)) =>
       /\ imagePreviews' = RemoveAt(imagePreviews, out'.index)
       /\ imageData' = RemoveAt(imageData, out'.index)]_vars

(***************************************************************************)
(* C10: a file selection in create mode whose size plus the preview count  *)
(* exceeds 5, or which holds a file that is not an image, is rejected as a *)
(* whole: no upload is issued, the busy flag is not set, and               *)
(* imagePreviews, imageData and imageFiles are unchanged.                  *)
(***************************************************************************)
BatchTooLarge(files) == Len(files) + Len(imagePreviews) > 5
BatchHasNonImage(files) == \E i \in 1..Len(files) : ~IsImageType(files[i].type)

C10_BadBatchRejected ==
  [][(/\ out'.op = "select" /\ ~EditMode
      /\ BatchTooLarge(out'.files) \/ BatchHasNonImage(out'.files)) =>
       /\ out'.uploads = 0
       /\ ~isUploading' /\ uploadQueue' = uploadQueue
       /\ ImagesUnchanged]_vars

C10_Witness ==
  /\ out.op = "select" /\ isOpen /\ ~EditMode
  /\ Len(out.files) + Len(imagePreviews) > 5
  /\ \A i \in 1..Len(out.files) : IsImageType(out.files[i].type)
  /\ out.toast = "Maximo 5 imagenes permitidas"

(***************************************************************************)
(* C11: when the k-th upload of an accepted batch fails, the images        *)
(* committed so far (those of the k-1 uploaded files among them) stay, no  *)
(* entry is added for the files k..n, no upload is issued for the files    *)
(* k+1..n, and the error is reported once: by the failing step, no         *)
(* successful upload of the batch reporting anything.                      *)
(***************************************************************************)
C11_PartialBatchFailure ==
  [][/\ out'.op = "uploadErr" =>
          /\ ImagesUnchanged
          /\ out'.uploads = 0 /\ uploadQueue' = <<>> /\ batch' = NoBatch
          /\ out'.toast = "Error al subir imagen"
     /\ out'.op = "uploadOk" => out'.toast = ""]_vars

C11_Witness ==
  /\ out.op = "uploadErr"
  /\ Len(out.files) = 3 /\ Len(out.urls) = 1
  /\ imagePreviews = out.urls
  /\ imageData = <<Descriptor(UploadResponse(out.urls[1]))>>

(***************************************************************************)
(* C12: right after resetForm or handleClose the four image arrays are     *)
(* empty and formData is the default record, which has no id; handleClose  *)
(* also calls onClose (the parent hides the form), the reset included in   *)
(* the same step.                                                          *)
(***************************************************************************)
C12_ResetClearsAll ==
  [][out'.op \in {"reset", "close"} =>
       /\ imageFiles' = <<>> /\ imagePreviews' = <<>>
       /\ existingImages' = <<>> /\ imageData' = <<>>
       /\ formData' = DefaultForm /\ "id" \notin DOMAIN formData'
       /\ out'.op = "close" => (out'.onClose /\ ~isOpen')
       /\ out'.op = "reset" => (~out'.onClose /\ isOpen' = isOpen)]_vars

C12_Witness ==
  /\ out.op = "reset"
  /\ isOpen /\ EditMode /\ Len(Catalog[instrumentToEdit].imageUrls) > 0
  /\ formData = DefaultForm /\ imagePreviews = <<>> /\ existingImages = <<>>

(***************************************************************************)
(* C13: the answer to an upload of a batch during which the form was       *)
(* closed (the upload in flight at the close and every later one of the    *)
(* batch) is dropped: the step it arrives in adds nothing to imagePreviews *)
(* or imageData, with the form still closed or open again.                 *)
(***************************************************************************)
C13_ClosedBatchDiscarded ==
  [][(out'.op = "uploadOk" /\ batch.closed) =>
       /\ imagePreviews' = imagePreviews
       /\ imageData' = imageData]_vars

(***************************************************************************)
(* C14: a preview URL starting with "blob:" is released exactly once:      *)
(* never more than once, and once by the time it is no longer a preview    *)
(* (removed, reset or closed), over any sequence of remove, reset, close   *)
(* by handleClose or by the parent, and reopen; any other preview URL is   *)
(* never released.                                                         *)
(***************************************************************************)
IsPreview(url) == \E i \in 1..Len(imagePreviews) : imagePreviews[i] = url

C14_ReleasedExactlyOnce ==
  /\ [](\A u \in PreviewUrls :
          IF IsBlobUrl(u) THEN revoked[u] <= 1 ELSE revoked[u] = 0)
  /\ [][\A u \in BlobUrls :
          (IsPreview(u) /\ ~IsPreview(u)') => revoked'[u] = 1]_vars

(***************************************************************************)
(* C15: in create mode, whenever no upload is in flight, imageFiles is as  *)
(* long as imagePreviews minus existingImages and imageFiles[i -           *)
(* existingImages.length] is the file whose upload produced                *)
(* imagePreviews[i] (here: the file the backend answers with that URL); so *)
(* removeImage(i) takes out of imageFiles the file of the removed image.   *)
(***************************************************************************)
C15_FilesParallel ==
  /\ []((~EditMode /\ uploadQueue = <<>>) =>
          /\ Len(imageFiles) = Len(imagePreviews) - Len(existingImages)
          /\ \A i \in (Len(existingImages) + 1)..Len(imagePreviews) :
                SecureUrlOf(imageFiles[i - Len(existingImages)]) = imagePreviews[i])
  /\ [][(/\ out'.op = "remove" /\ ~EditMode /\ uploadQueue = <<>>
          /\ out'.index >= Len(existingImages) /\ out'.index < Len(imagePreviews)) =>
          /\ out'.index - Len(existingImages) < Len(imageFiles)
          /\ SecureUrlOf(imageFiles[out'.index - Len(existingImages) + 1])
                = imagePreviews[out'.index + 1]
          /\ imageFiles' = RemoveAt(imageFiles, out'.index - Len(existingImages))]_vars

(***************************************************************************)
(* C16: a field change in create mode changes formData in the named field  *)
(* only, to: the checked flag for a checkbox; else, for idCategory, the     *)
(* integer value of the raw value; else, for available, the boolean (raw   *)
(* value = "true"); else the raw value.                                    *)
(***************************************************************************)
\* the integers written by the raw values of the model
Numerals == [x \in {"1", "2"} |-> IF x = "1" THEN 1 ELSE 2]

OnlyNamedFieldChanges ==
  /\ DOMAIN formData' = DOMAIN formData \cup {out'.name}
  /\ \A f \in DOMAIN formData : f # out'.name => formData'[f] = formData[f]

C16_CreateCoercion ==
  [][(out'.op = "input" /\ ~EditMode) =>
       /\ OnlyNamedFieldChanges
       /\ IF out'.type = "checkbox" THEN formData'[out'.name] = Bool(out'.checked)
          ELSE IF out'.name = "idCategory"
               THEN /\ formData'.idCategory.k = "number"
                    /\ out'.value \in DOMAIN Numerals =>
                         formData'.idCategory = Num(Numerals[out'.value])
          ELSE IF out'.name = "available"
               THEN formData'.available = Bool(out'.value = "true")
          ELSE formData'[out'.name] = Str(out'.value)]_vars

(***************************************************************************)
(* C16 as amended: for idCategory the new value is Number(raw value): the  *)
(* integer for an integer numeral, 0 for the empty string, NaN for a raw   *)
(* value that is not numeric.                                              *)
(***************************************************************************)
C16_CreateCoercionNumber ==
  [][(out'.op = "input" /\ ~EditMode) =>
       /\ OnlyNamedFieldChanges
       /\ IF out'.type = "checkbox" THEN formData'[out'.name] = Bool(out'.checked)
          ELSE IF out'.name = "idCategory"
               THEN formData'.idCategory =
                      CASE out'.value \in DOMAIN Numerals -> Num(Numerals[out'.value])
                        [] out'.value = "" -> Num(0)
                        [] OTHER -> NaN
          ELSE IF out'.name = "available"
               THEN formData'.available = Bool(out'.value = "true")
          ELSE formData'[out'.name] = Str(out'.value)]_vars

C16_Witness ==
  /\ out.op = "input" /\ isOpen /\ ~EditMode
  /\ out.type = "text" /\ out.name = "idCategory" /\ out.value = "2"
  /\ formData.idCategory = Num(2)
  /\ formData.available = Bool(TRUE)

(***************************************************************************)
(* C17: in an accepted batch the uploads are issued one at a time in       *)
(* selection order: the files still to be answered are the rest of the     *)
(* selection, only the first of them in flight, and the next upload is     *)
(* issued by the step that takes the answer to the one before; each answer *)
(* appends one entry to imagePreviews and one to imageData carrying the    *)
(* secureUrl answered, so that n answers give n entries in selection order.*)
(***************************************************************************)
C17_SequentialInOrder ==
  /\ [](/\ uploadQueue = SubSeq(batch.files, Len(batch.urls) + 1, Len(batch.files))
        /\ batch # NoBatch => uploadQueue # <<>>)
  /\ [][/\ out'.uploads <= 1
        /\ (out'.op = "select" /\ uploadQueue' # <<>>) =>
              /\ out'.uploads = 1
              /\ uploadQueue' = out'.files
        /\ out'.op = "uploadOk" =>
              LET k == Len(out'.urls)
                  n == Len(imagePreviews)
              IN /\ out'.files = batch.files /\ out'.urls = Append(batch.urls, out'.urls[k])
                 /\ Head(uploadQueue) = out'.files[k]
                 /\ out'.uploads = IF k < Len(out'.files) THEN 1 ELSE 0
                 /\ imagePreviews' = Append(imagePreviews, out'.urls[k])
                 /\ Len(imageData') = Len(imageData) + 1
                 /\ SubSeq(imageData', 1, Len(imageData)) = imageData
                 /\ imageData'[Len(imageData')].url = out'.urls[k]]_vars

C17_Witness ==
  /\ out.op = "uploadOk" /\ uploadQueue = <<>>
  /\ out.files = <<PngFile, JpgFile, PngFile>>
  /\ out.urls = <<"http://b/2.png", "http://a/1.png", "http://b/2.png">>
  /\ imagePreviews = out.urls
  /\ DataToUrls(imageData) = out.urls

(***************************************************************************)
(* C18: for the mounted ImageUploader, isUploading is true in every state  *)
(* in which an upload of an accepted batch is in flight or still to be     *)
(* issued; no file selection is taken while it is true; the step that ends *)
(* the batch (its last answer, or a failed upload) sets it to false; and,  *)
(* every upload being answered, a true flag becomes false again.           *)
(***************************************************************************)
C18_BusyFlag ==
  /\ [](uploadQueue # <<>> => isUploading)
  /\ [][/\ out'.op = "select" => ~isUploading
        /\ (out'.op = "uploadErr" \/ (out'.op = "uploadOk" /\ uploadQueue' = <<>>)) =>
              ~isUploading'
        /\ (out'.op = "uploadOk" /\ uploadQueue' # <<>>) => isUploading']_vars
  /\ (isUploading ~> ~isUploading)

C18_Witness ==
  /\ out.op = "uploadErr" /\ ~isUploading
  /\ Len(out.files) = 3 /\ Len(out.urls) = 2

(***************************************************************************)
(* C19: in create mode imagePreviews and imageData never hold more than 5  *)
(* entries, in any reachable state.                                        *)
(***************************************************************************)
C19_AtMostFive ==
  ~EditMode => (Len(imagePreviews) <= 5 /\ Len(imageData) <= 5)

(***************************************************************************)
(* C20: when a create request is sent, no upload of an accepted batch is   *)
(* in flight or still to be issued, and the imageUrls of the request are,  *)
(* in order, the url of every entry of imageData at that moment.           *)
(***************************************************************************)
C20_NoCreateDuringUpload ==
  [][(/\ out'.op = "submit" /\ out'.issued # <<>>
      /\ out'.issued[1].kind = "create") =>
       /\ uploadQueue = <<>> /\ ~isUploading
       /\ out'.issued[1].payload.imageUrls = DataToUrls(imageData)]_vars
====
